---- MODULE Spec2Model ----
(***************************************************************************)
(* The p2p command catalog of quarkchain/cluster/p2p_commands.py: the      *)
(* message classes with their FIELDS, the skip requests with their named   *)
(* constructors and accessors, CommandOp and OP_SERIALIZER_MAP.            *)
(*                                                                         *)
(* A Python int is a record [neg, mag]: a sign and the big-endian base-256 *)
(* digits of the magnitude without leading zeros, so that heights up to    *)
(* and beyond 2^256 are ordinary values.  A bytes object is the sequence   *)
(* of its bytes.  A message instance is [cls, f]: its class and its        *)
(* attributes.                                                             *)
(***************************************************************************)
EXTENDS Integers, Sequences, FiniteSets, TLC

VARIABLES catalog, msg, built, wire, sent, outcome

vars == <<catalog, msg, built, wire, sent, outcome>>

(***************************************************************************)
(* Bounds of the model.                                                    *)
(***************************************************************************)
\* requests are constructed directly with the type bytes 0..MaxType and 255
MaxType == 2
\* lists hold at most MaxListLen elements
MaxListLen == 2
\* the width, in bytes, of the encodings of the types of quarkchain.core
\* that this file uses as they are (Branch, the headers, the blocks)
OpaqueLen == 2

(***************************************************************************)
(* Python ints and bytes.                                                  *)
(***************************************************************************)
RECURSIVE Digits(_)
Digits(n) == IF n = 0 THEN <<>> ELSE Append(Digits(n \div 256), n % 256)

\* the int n >= 0
PyInt(n) == [neg |-> FALSE, mag |-> Digits(n)]

\* the int -n, n > 0
NegPyInt(n) == [neg |-> TRUE, mag |-> Digits(n)]

Zeros(k) == [i \in 1..k |-> 0]

\* 256^k
Pow256(k) == [neg |-> FALSE, mag |-> <<1>> \o Zeros(k)]

\* 256^k - 1, the largest unsigned int of k bytes
MaxUint(k) == [neg |-> FALSE, mag |-> [i \in 1..k |-> 255]]

RECURSIVE StripZeros(_)
StripZeros(b) == IF b = <<>> \/ b[1] # 0 THEN b ELSE StripZeros(Tail(b))

\* value.to_bytes(length, byteorder="big"): OverflowError for a negative int
\* and for one that needs more than length bytes
to_bytes(value, length) ==
    IF value.neg \/ Len(value.mag) > length
    THEN [ok |-> FALSE, bytes |-> <<>>]
    ELSE [ok |-> TRUE, bytes |-> Zeros(length - Len(value.mag)) \o value.mag]

\* int.from_bytes(data, byteorder="big")
from_bytes(data) == [neg |-> FALSE, mag |-> StripZeros(data)]

\* quarkchain.utils.check(condition): passes, or raises
check(condition) == condition

(***************************************************************************)
(* The serializers of quarkchain.core.                                     *)
(***************************************************************************)
uint8 == [kind |-> "uint", size |-> 1]
uint16 == [kind |-> "uint", size |-> 2]
uint32 == [kind |-> "uint", size |-> 4]
uint128 == [kind |-> "uint", size |-> 16]
hash256 == [kind |-> "bytes", size |-> 32]
Branch == [kind |-> "bytes", size |-> OpaqueLen]
RootBlockHeader == [kind |-> "bytes", size |-> OpaqueLen]
MinorBlockHeader == [kind |-> "bytes", size |-> OpaqueLen]
RootBlock == [kind |-> "bytes", size |-> OpaqueLen]
MinorBlock == [kind |-> "bytes", size |-> OpaqueLen]
TypedTransaction == [kind |-> "bytes", size |-> OpaqueLen]
PrependedSizeListSerializer(size_bytes, ser) ==
    [kind |-> "list", size |-> size_bytes, elem |-> ser]
Struct(cls) == [kind |-> "struct", cls |-> cls]

(***************************************************************************)
(* The message classes: FIELDS.                                            *)
(***************************************************************************)
HelloCommand_FIELDS ==
    << <<"version", uint32>>,
       <<"network_id", uint32>>,
       <<"peer_id", hash256>>,
       <<"peer_ip", uint128>>,
       <<"peer_port", uint16>>,
       <<"chain_mask_list", PrependedSizeListSerializer(4, uint32)>>,
       <<"root_block_header", RootBlockHeader>> >>

GetPeerListRequest_FIELDS == << <<"max_peers", uint32>> >>

PeerInfo_FIELDS == << <<"ip", uint128>>, <<"port", uint16>> >>

GetPeerListResponse_FIELDS ==
    << <<"peer_info_list", PrependedSizeListSerializer(4, Struct("PeerInfo"))>> >>

NewMinorBlockHeaderListCommand_FIELDS ==
    << <<"root_block_header", RootBlockHeader>>,
       <<"minor_block_header_list", PrependedSizeListSerializer(4, MinorBlockHeader)>> >>

NewTransactionListCommand_FIELDS ==
    << <<"transaction_list", PrependedSizeListSerializer(4, TypedTransaction)>> >>

GetRootBlockHeaderListRequest_FIELDS ==
    << <<"block_hash", hash256>>, <<"limit", uint32>>, <<"direction", uint8>> >>

GetRootBlockHeaderListResponse_FIELDS ==
    << <<"root_tip", RootBlockHeader>>,
       <<"block_header_list", PrependedSizeListSerializer(4, RootBlockHeader)>> >>

\* FIELDS with limit and skip exchanged on the wire
GetRootBlockHeaderListWithSkipRequest_FIELDS_swapped ==
    << <<"type", uint8>>,
       <<"data", hash256>>,
       <<"skip", uint32>>,
       <<"limit", uint32>>,
       <<"direction", uint8>> >>

GetRootBlockHeaderListWithSkipRequest_FIELDS ==
    << <<"type", uint8>>,
       <<"data", hash256>>,
       <<"limit", uint32>>,
       <<"skip", uint32>>,
       <<"direction", uint8>> >>

\* FIELDS with the branch written last
GetMinorBlockHeaderListWithSkipRequest_FIELDS_branch_last ==
    << <<"type", uint8>>,
       <<"data", hash256>>,
       <<"limit", uint32>>,
       <<"skip", uint32>>,
       <<"direction", uint8>>,
       <<"branch", Branch>> >>

GetMinorBlockHeaderListWithSkipRequest_FIELDS ==
    << <<"type", uint8>>,
       <<"data", hash256>>,
       <<"branch", Branch>>,
       <<"limit", uint32>>,
       <<"skip", uint32>>,
       <<"direction", uint8>> >>

GetRootBlockListRequest_FIELDS ==
    << <<"root_block_hash_list", PrependedSizeListSerializer(4, hash256)>> >>

GetRootBlockListResponse_FIELDS ==
    << <<"root_block_list", PrependedSizeListSerializer(4, RootBlock)>> >>

GetMinorBlockListRequest_FIELDS ==
    << <<"minor_block_hash_list", PrependedSizeListSerializer(4, hash256)>> >>

GetMinorBlockListResponse_FIELDS ==
    << <<"minor_block_list", PrependedSizeListSerializer(4, MinorBlock)>> >>

GetMinorBlockHeaderListRequest_FIELDS ==
    << <<"block_hash", hash256>>,
       <<"branch", Branch>>,
       <<"limit", uint32>>,
       <<"direction", uint8>> >>

GetMinorBlockHeaderListResponse_FIELDS ==
    << <<"root_tip", RootBlockHeader>>,
       <<"shard_tip", MinorBlockHeader>>,
       <<"block_header_list", PrependedSizeListSerializer(4, MinorBlockHeader)>> >>

NewBlockMinorCommand_FIELDS == << <<"block", MinorBlock>> >>

NewRootBlockCommand_FIELDS == << <<"block", RootBlock>> >>

PingPongCommand_FIELDS == << <<"message", hash256>> >>

\* cls.FIELDS
FIELDS(cls) ==
    CASE cls = "HelloCommand" -> HelloCommand_FIELDS
      [] cls = "GetPeerListRequest" -> GetPeerListRequest_FIELDS
      [] cls = "PeerInfo" -> PeerInfo_FIELDS
      [] cls = "GetPeerListResponse" -> GetPeerListResponse_FIELDS
      [] cls = "NewMinorBlockHeaderListCommand" -> NewMinorBlockHeaderListCommand_FIELDS
      [] cls = "NewTransactionListCommand" -> NewTransactionListCommand_FIELDS
      [] cls = "GetRootBlockHeaderListRequest" -> GetRootBlockHeaderListRequest_FIELDS
      [] cls = "GetRootBlockHeaderListResponse" -> GetRootBlockHeaderListResponse_FIELDS
      [] cls = "GetRootBlockHeaderListWithSkipRequest" ->
            GetRootBlockHeaderListWithSkipRequest_FIELDS
      [] cls = "GetMinorBlockHeaderListWithSkipRequest" ->
            GetMinorBlockHeaderListWithSkipRequest_FIELDS
      [] cls = "GetRootBlockListRequest" -> GetRootBlockListRequest_FIELDS
      [] cls = "GetRootBlockListResponse" -> GetRootBlockListResponse_FIELDS
      [] cls = "GetMinorBlockListRequest" -> GetMinorBlockListRequest_FIELDS
      [] cls = "GetMinorBlockListResponse" -> GetMinorBlockListResponse_FIELDS
      [] cls = "GetMinorBlockHeaderListRequest" -> GetMinorBlockHeaderListRequest_FIELDS
      [] cls = "GetMinorBlockHeaderListResponse" -> GetMinorBlockHeaderListResponse_FIELDS
      [] cls = "NewBlockMinorCommand" -> NewBlockMinorCommand_FIELDS
      [] cls = "NewRootBlockCommand" -> NewRootBlockCommand_FIELDS
      [] cls = "PingPongCommand" -> PingPongCommand_FIELDS

\* class Direction(IntEnum)
GENESIS == PyInt(0)
TIP == PyInt(1)


(***************************************************************************)
(* Serializable: serialize and deserialize, driven by FIELDS.              *)
(***************************************************************************)
\* the value of an unsigned int of at most 3 bytes; -1 for a larger one
ToNat(v) ==
    CASE Len(v.mag) = 0 -> 0
      [] Len(v.mag) = 1 -> v.mag[1]
      [] Len(v.mag) = 2 -> v.mag[1] * 256 + v.mag[2]
      [] Len(v.mag) = 3 -> (v.mag[1] * 256 + v.mag[2]) * 256 + v.mag[3]
      [] OTHER -> -1

Failed == [ok |-> FALSE, bytes |-> <<>>]

RECURSIVE serialize(_, _), serialize_list(_, _, _), serialize_fields(_, _, _)
\* ser.serialize(value): the bytes, or a failure (a value outside its width)
serialize(ser, value) ==
    CASE ser.kind = "uint" -> to_bytes(value, ser.size)
      [] ser.kind = "bytes" ->
            IF Len(value) = ser.size THEN [ok |-> TRUE, bytes |-> value] ELSE Failed
      [] ser.kind = "list" ->
            LET n == to_bytes(PyInt(Len(value)), ser.size)
                body == serialize_list(ser.elem, value, 1)
            IN  IF n.ok /\ body.ok
                THEN [ok |-> TRUE, bytes |-> n.bytes \o body.bytes]
                ELSE Failed
      [] ser.kind = "struct" -> serialize_fields(FIELDS(ser.cls), value.f, 1)

\* the elements i.. of a list, one after the other
serialize_list(ser, items, i) ==
    IF i > Len(items)
    THEN [ok |-> TRUE, bytes |-> <<>>]
    ELSE LET head == serialize(ser, items[i])
             rest == serialize_list(ser, items, i + 1)
         IN  IF head.ok /\ rest.ok
             THEN [ok |-> TRUE, bytes |-> head.bytes \o rest.bytes]
             ELSE Failed

\* the fields i.. of FIELDS, in the declared order
serialize_fields(fields, f, i) ==
    IF i > Len(fields)
    THEN [ok |-> TRUE, bytes |-> <<>>]
    ELSE LET head == serialize(fields[i][2], f[fields[i][1]])
             rest == serialize_fields(fields, f, i + 1)
         IN  IF head.ok /\ rest.ok
             THEN [ok |-> TRUE, bytes |-> head.bytes \o rest.bytes]
             ELSE Failed

Drop(data, n) == SubSeq(data, n + 1, Len(data))

Truncated == [ok |-> FALSE, value |-> <<>>, rest |-> <<>>]

(***************************************************************************)
(* The skip requests: __init__, the accessors and the named constructors.  *)
(* A call returns [self, status, ret]: the instance after the call, "ok"   *)
(* or the exception raised, and the value returned.                        *)
(***************************************************************************)
None == <<"none">>

\* __init__ with limit and skip assigned to each other's attribute
GetRootBlockHeaderListWithSkipRequest_crossed(type, data, limit, skip, direction) ==
    [cls |-> "GetRootBlockHeaderListWithSkipRequest",
     f |-> [type |-> type, data |-> data, limit |-> skip, skip |-> limit,
            direction |-> direction]]

\* GetRootBlockHeaderListWithSkipRequest.__init__
GetRootBlockHeaderListWithSkipRequest(type, data, limit, skip, direction) ==
    [cls |-> "GetRootBlockHeaderListWithSkipRequest",
     f |-> [type |-> type, data |-> data, limit |-> limit, skip |-> skip,
            direction |-> direction]]

\* GetMinorBlockHeaderListWithSkipRequest.__init__
GetMinorBlockHeaderListWithSkipRequest(type, data, branch, limit, skip, direction) ==
    [cls |-> "GetMinorBlockHeaderListWithSkipRequest",
     f |-> [type |-> type, data |-> data, branch |-> branch, limit |-> limit,
            skip |-> skip, direction |-> direction]]

\* get_height that reads the data of a hash-addressed request too
GetRootBlockHeaderListWithSkipRequest_get_height_unchecked(self) ==
    [self |-> self, status |-> "ok", ret |-> <<"int", from_bytes(self.f.data)>>]

\* GetRootBlockHeaderListWithSkipRequest.get_height
GetRootBlockHeaderListWithSkipRequest_get_height(self) ==
    IF ~check(self.f.type = PyInt(1))
    THEN [self |-> self, status |-> "ContractViolation", ret |-> None]
    ELSE [self |-> self, status |-> "ok", ret |-> <<"int", from_bytes(self.f.data)>>]

\* get_hash that makes the request a hash-addressed one
GetRootBlockHeaderListWithSkipRequest_get_hash_coercing(self) ==
    LET coerced == [self EXCEPT !.f.type = PyInt(0)]
    IN  [self |-> coerced, status |-> "ok", ret |-> <<"bytes", self.f.data>>]

\* GetRootBlockHeaderListWithSkipRequest.get_hash
GetRootBlockHeaderListWithSkipRequest_get_hash(self) ==
    IF ~check(self.f.type = PyInt(0))
    THEN [self |-> self, status |-> "ContractViolation", ret |-> None]
    ELSE [self |-> self, status |-> "ok", ret |-> <<"bytes", self.f.data>>]

\* create_for_height that keeps the low 32 bytes of the height
GetRootBlockHeaderListWithSkipRequest_create_for_height_wrapping(height, limit, skip, direction) ==
    LET low == IF Len(height.mag) > 32
               THEN SubSeq(height.mag, Len(height.mag) - 31, Len(height.mag))
               ELSE Zeros(32 - Len(height.mag)) \o height.mag
    IN  [self |-> GetRootBlockHeaderListWithSkipRequest(PyInt(1), low, limit, skip, direction),
         status |-> "ok", ret |-> None]

\* GetRootBlockHeaderListWithSkipRequest.create_for_height
GetRootBlockHeaderListWithSkipRequest_create_for_height(height, limit, skip, direction) ==
    LET data == to_bytes(height, 32)
    IN  IF ~data.ok
        THEN [self |-> [cls |-> "None", f |-> <<>>], status |-> "OverflowError",
              ret |-> None]
        ELSE [self |-> GetRootBlockHeaderListWithSkipRequest(
                           PyInt(1), data.bytes, limit, skip, direction),
              status |-> "ok", ret |-> None]

\* GetRootBlockHeaderListWithSkipRequest.create_for_hash
GetRootBlockHeaderListWithSkipRequest_create_for_hash(hash, limit, skip, direction) ==
    [self |-> GetRootBlockHeaderListWithSkipRequest(PyInt(0), hash, limit, skip, direction),
     status |-> "ok", ret |-> None]

\* GetMinorBlockHeaderListWithSkipRequest.get_height
GetMinorBlockHeaderListWithSkipRequest_get_height(self) ==
    IF ~check(self.f.type = PyInt(1))
    THEN [self |-> self, status |-> "ContractViolation", ret |-> None]
    ELSE [self |-> self, status |-> "ok", ret |-> <<"int", from_bytes(self.f.data)>>]

\* GetMinorBlockHeaderListWithSkipRequest.get_hash
GetMinorBlockHeaderListWithSkipRequest_get_hash(self) ==
    IF ~check(self.f.type = PyInt(0))
    THEN [self |-> self, status |-> "ContractViolation", ret |-> None]
    ELSE [self |-> self, status |-> "ok", ret |-> <<"bytes", self.f.data>>]

\* create_for_height with the height in as few bytes as it needs
GetMinorBlockHeaderListWithSkipRequest_create_for_height_short(height, branch, limit, skip, direction) ==
    [self |-> GetMinorBlockHeaderListWithSkipRequest(
                  PyInt(1), height.mag, branch, limit, skip, direction),
     status |-> "ok", ret |-> None]

\* GetMinorBlockHeaderListWithSkipRequest.create_for_height
GetMinorBlockHeaderListWithSkipRequest_create_for_height(height, branch, limit, skip, direction) ==
    LET data == to_bytes(height, 32)
    IN  IF ~data.ok
        THEN [self |-> [cls |-> "None", f |-> <<>>], status |-> "OverflowError",
              ret |-> None]
        ELSE [self |-> GetMinorBlockHeaderListWithSkipRequest(
                           PyInt(1), data.bytes, branch, limit, skip, direction),
              status |-> "ok", ret |-> None]

\* create_for_hash that marks the request as height-addressed
GetMinorBlockHeaderListWithSkipRequest_create_for_hash_mistyped(hash, branch, limit, skip, direction) ==
    [self |-> GetMinorBlockHeaderListWithSkipRequest(
                  PyInt(1), hash, branch, limit, skip, direction),
     status |-> "ok", ret |-> None]

\* GetMinorBlockHeaderListWithSkipRequest.create_for_hash
GetMinorBlockHeaderListWithSkipRequest_create_for_hash(hash, branch, limit, skip, direction) ==
    [self |-> GetMinorBlockHeaderListWithSkipRequest(
                  PyInt(0), hash, branch, limit, skip, direction),
     status |-> "ok", ret |-> None]

\* cls(**kwargs): every __init__ of the file assigns each argument to the
\* attribute of its name
construct(cls, kwargs) ==
    CASE cls = "GetRootBlockHeaderListWithSkipRequest" ->
            GetRootBlockHeaderListWithSkipRequest(
                kwargs.type, kwargs.data, kwargs.limit, kwargs.skip, kwargs.direction)
      [] cls = "GetMinorBlockHeaderListWithSkipRequest" ->
            GetMinorBlockHeaderListWithSkipRequest(
                kwargs.type, kwargs.data, kwargs.branch, kwargs.limit, kwargs.skip,
                kwargs.direction)
      [] OTHER -> [cls |-> cls, f |-> kwargs]

RECURSIVE deserialize(_, _), deserialize_list(_, _, _), deserialize_fields(_, _, _, _)
\* ser.deserialize(bb): the value and the bytes left, or a failure (too few bytes)
deserialize(ser, data) ==
    CASE ser.kind = "uint" ->
            IF Len(data) < ser.size THEN Truncated
            ELSE [ok |-> TRUE, value |-> from_bytes(SubSeq(data, 1, ser.size)),
                  rest |-> Drop(data, ser.size)]
      [] ser.kind = "bytes" ->
            IF Len(data) < ser.size THEN Truncated
            ELSE [ok |-> TRUE, value |-> SubSeq(data, 1, ser.size),
                  rest |-> Drop(data, ser.size)]
      [] ser.kind = "list" ->
            IF Len(data) < ser.size THEN Truncated
            ELSE LET n == ToNat(from_bytes(SubSeq(data, 1, ser.size)))
                 IN  IF n < 0 \/ n > Len(data) THEN Truncated
                     ELSE deserialize_list(ser.elem, Drop(data, ser.size), n)
      [] ser.kind = "struct" ->
            LET r == deserialize_fields(FIELDS(ser.cls), data, 1, <<>>)
            IN  IF r.ok
                THEN [ok |-> TRUE, value |-> construct(ser.cls, r.value), rest |-> r.rest]
                ELSE Truncated

\* n elements
deserialize_list(ser, data, n) ==
    IF n = 0
    THEN [ok |-> TRUE, value |-> <<>>, rest |-> data]
    ELSE LET head == deserialize(ser, data)
         IN  IF ~head.ok THEN Truncated
             ELSE LET tail == deserialize_list(ser, head.rest, n - 1)
                  IN  IF ~tail.ok THEN Truncated
                      ELSE [ok |-> TRUE, value |-> <<head.value>> \o tail.value,
                            rest |-> tail.rest]

\* the fields i.. of FIELDS, in the declared order, added to kwargs
deserialize_fields(fields, data, i, kwargs) ==
    IF i > Len(fields)
    THEN [ok |-> TRUE, value |-> kwargs, rest |-> data]
    ELSE LET head == deserialize(fields[i][2], data)
         IN  IF ~head.ok THEN Truncated
             ELSE deserialize_fields(fields, head.rest, i + 1,
                                     (fields[i][1] :> head.value) @@ kwargs)


(***************************************************************************)
(* CommandOp and OP_SERIALIZER_MAP.                                        *)
(***************************************************************************)
HELLO == 0
NEW_MINOR_BLOCK_HEADER_LIST == 1
NEW_TRANSACTION_LIST == 2
GET_PEER_LIST_REQUEST == 3
GET_PEER_LIST_RESPONSE == 4
GET_ROOT_BLOCK_HEADER_LIST_REQUEST == 5
GET_ROOT_BLOCK_HEADER_LIST_RESPONSE == 6
GET_ROOT_BLOCK_LIST_REQUEST == 7
GET_ROOT_BLOCK_LIST_RESPONSE == 8
GET_MINOR_BLOCK_LIST_REQUEST == 9
GET_MINOR_BLOCK_LIST_RESPONSE == 10
GET_MINOR_BLOCK_HEADER_LIST_REQUEST == 11
GET_MINOR_BLOCK_HEADER_LIST_RESPONSE == 12
NEW_BLOCK_MINOR == 13
PING == 14
PONG == 15
GET_ROOT_BLOCK_HEADER_LIST_WITH_SKIP_REQUEST == 16
GET_ROOT_BLOCK_HEADER_LIST_WITH_SKIP_RESPONSE == 17
NEW_ROOT_BLOCK == 18
GET_MINOR_BLOCK_HEADER_LIST_WITH_SKIP_REQUEST == 19
GET_MINOR_BLOCK_HEADER_LIST_WITH_SKIP_RESPONSE == 20

\* class CommandOp: its values
CommandOp ==
    {HELLO, NEW_MINOR_BLOCK_HEADER_LIST, NEW_TRANSACTION_LIST, GET_PEER_LIST_REQUEST,
     GET_PEER_LIST_RESPONSE, GET_ROOT_BLOCK_HEADER_LIST_REQUEST,
     GET_ROOT_BLOCK_HEADER_LIST_RESPONSE, GET_ROOT_BLOCK_LIST_REQUEST,
     GET_ROOT_BLOCK_LIST_RESPONSE, GET_MINOR_BLOCK_LIST_REQUEST,
     GET_MINOR_BLOCK_LIST_RESPONSE, GET_MINOR_BLOCK_HEADER_LIST_REQUEST,
     GET_MINOR_BLOCK_HEADER_LIST_RESPONSE, NEW_BLOCK_MINOR, PING, PONG,
     GET_ROOT_BLOCK_HEADER_LIST_WITH_SKIP_REQUEST,
     GET_ROOT_BLOCK_HEADER_LIST_WITH_SKIP_RESPONSE, NEW_ROOT_BLOCK,
     GET_MINOR_BLOCK_HEADER_LIST_WITH_SKIP_REQUEST,
     GET_MINOR_BLOCK_HEADER_LIST_WITH_SKIP_RESPONSE}

\* the rows of OP_SERIALIZER_MAP
Row(op) ==
    CASE op = HELLO -> "HelloCommand"
      [] op = NEW_MINOR_BLOCK_HEADER_LIST -> "NewMinorBlockHeaderListCommand"
      [] op = NEW_TRANSACTION_LIST -> "NewTransactionListCommand"
      [] op = GET_PEER_LIST_REQUEST -> "GetPeerListRequest"
      [] op = GET_PEER_LIST_RESPONSE -> "GetPeerListResponse"
      [] op = GET_ROOT_BLOCK_HEADER_LIST_REQUEST -> "GetRootBlockHeaderListRequest"
      [] op = GET_ROOT_BLOCK_HEADER_LIST_RESPONSE -> "GetRootBlockHeaderListResponse"
      [] op = GET_ROOT_BLOCK_LIST_REQUEST -> "GetRootBlockListRequest"
      [] op = GET_ROOT_BLOCK_LIST_RESPONSE -> "GetRootBlockListResponse"
      [] op = GET_MINOR_BLOCK_LIST_REQUEST -> "GetMinorBlockListRequest"
      [] op = GET_MINOR_BLOCK_LIST_RESPONSE -> "GetMinorBlockListResponse"
      [] op = GET_MINOR_BLOCK_HEADER_LIST_REQUEST -> "GetMinorBlockHeaderListRequest"
      [] op = GET_MINOR_BLOCK_HEADER_LIST_RESPONSE -> "GetMinorBlockHeaderListResponse"
      [] op = NEW_BLOCK_MINOR -> "NewBlockMinorCommand"
      [] op = PING -> "PingPongCommand"
      [] op = PONG -> "PingPongCommand"
      [] op = GET_ROOT_BLOCK_HEADER_LIST_WITH_SKIP_REQUEST ->
            "GetRootBlockHeaderListWithSkipRequest"
      [] op = GET_ROOT_BLOCK_HEADER_LIST_WITH_SKIP_RESPONSE ->
            "GetRootBlockHeaderListResponse"
      [] op = NEW_ROOT_BLOCK -> "NewRootBlockCommand"
      [] op = GET_MINOR_BLOCK_HEADER_LIST_WITH_SKIP_REQUEST ->
            "GetMinorBlockHeaderListWithSkipRequest"
      [] op = GET_MINOR_BLOCK_HEADER_LIST_WITH_SKIP_RESPONSE ->
            "GetMinorBlockHeaderListResponse"

\* the table with NEW_ROOT_BLOCK given the schema of NEW_BLOCK_MINOR
OP_SERIALIZER_MAP_root_as_minor ==
    [op \in CommandOp |-> IF op = NEW_ROOT_BLOCK THEN Row(NEW_BLOCK_MINOR) ELSE Row(op)]

\* the table without its last row
OP_SERIALIZER_MAP_short ==
    [op \in CommandOp \ {GET_MINOR_BLOCK_HEADER_LIST_WITH_SKIP_RESPONSE} |-> Row(op)]

OP_SERIALIZER_MAP == [op \in CommandOp |-> Row(op)]

\* the message classes of the file that OP_SERIALIZER_MAP names
Classes ==
    {"HelloCommand", "NewMinorBlockHeaderListCommand", "NewTransactionListCommand",
     "GetPeerListRequest", "GetPeerListResponse", "GetRootBlockHeaderListRequest",
     "GetRootBlockHeaderListResponse", "GetRootBlockListRequest",
     "GetRootBlockListResponse", "GetMinorBlockListRequest",
     "GetMinorBlockListResponse", "GetMinorBlockHeaderListRequest",
     "GetMinorBlockHeaderListResponse", "NewBlockMinorCommand", "PingPongCommand",
     "GetRootBlockHeaderListWithSkipRequest", "NewRootBlockCommand",
     "GetMinorBlockHeaderListWithSkipRequest"}

SkipRequests ==
    {"GetRootBlockHeaderListWithSkipRequest", "GetMinorBlockHeaderListWithSkipRequest"}

\* the opcode of a schema: an opcode the table gives that schema
opcode_for(cat, cls) == CHOOSE op \in DOMAIN cat : cat[op] = cls

\* the lookup of the dispatch: the schema of an opcode, or UnknownOpcode
schema_for(cat, op) ==
    IF op \in DOMAIN cat
    THEN [catalog |-> cat, status |-> "ok", schema |-> cat[op]]
    ELSE [catalog |-> cat, status |-> "UnknownOpcode", schema |-> ""]


(***************************************************************************)
(* The values the operations are called with.                              *)
(***************************************************************************)
Ones(k) == [i \in 1..k |-> 255]

\* 32-byte hashes; the first is also the 32-byte form of the height 1000
Hashes == {Zeros(30) \o <<3, 232>>, Ones(32)}

\* heights: 0, 1000, 2^256 - 1, and outside the slot 2^256 and -1
Heights == {PyInt(0), PyInt(1000), MaxUint(32), Pow256(32), NegPyInt(1)}

\* values of the types of quarkchain.core that the file uses as they are
Opaques == {Zeros(OpaqueLen), [i \in 1..OpaqueLen |-> i]}

\* the type bytes of the requests constructed directly
TypeBytes == (0..MaxType) \cup {255}

RECURSIVE SeqsUpTo(_, _)
\* the sequences of at most n elements of S
SeqsUpTo(S, n) ==
    IF n = 0 THEN {<<>>}
    ELSE LET shorter == SeqsUpTo(S, n - 1)
         IN  shorter \cup {Append(q, x) : q \in shorter, x \in S}

RECURSIVE Samples(_, _), Kwargs(_, _)
\* valid values of the field name of serializer ser
Samples(name, ser) ==
    CASE name = "type" -> {PyInt(t) : t \in TypeBytes}
      [] name = "direction" -> {GENESIS, TIP}
      [] name = "limit" -> {PyInt(50), MaxUint(ser.size)}
      [] name = "skip" -> {PyInt(9)}
      [] name \notin {"type", "direction", "limit", "skip"} /\ ser.kind = "uint" ->
            {MaxUint(ser.size)}
      [] ser.kind = "bytes" -> IF ser.size = 32 THEN Hashes ELSE Opaques
      [] ser.kind = "list" -> SeqsUpTo(Samples("", ser.elem), MaxListLen)
      [] ser.kind = "struct" ->
            {construct(ser.cls, kw) : kw \in Kwargs(FIELDS(ser.cls), Len(FIELDS(ser.cls)))}

\* the keyword arguments for the first i fields
Kwargs(fields, i) ==
    IF i = 0 THEN {<<>>}
    ELSE {(fields[i][1] :> v) @@ kw :
            kw \in Kwargs(fields, i - 1), v \in Samples(fields[i][1], fields[i][2])}

\* the Hello of the handshake scenario
HelloScenario ==
    [version |-> PyInt(60), network_id |-> PyInt(3), peer_id |-> Zeros(32),
     peer_ip |-> PyInt(0), peer_port |-> PyInt(38291),
     chain_mask_list |-> <<PyInt(1), PyInt(2)>>,
     root_block_header |-> [i \in 1..OpaqueLen |-> i]]

\* the keyword arguments each class is constructed with
Instances ==
    [cls \in Classes |->
        Kwargs(FIELDS(cls), Len(FIELDS(cls)))
            \cup (IF cls = "HelloCommand" THEN {HelloScenario} ELSE {})]

\* the opcodes received: those of CommandOp and two outside it
Opcodes == CommandOp \cup {21, 255}

(***************************************************************************)
(* The state: the catalog, the message instance in hand and how it was     *)
(* built, the payload on the wire and the instance it was serialized from, *)
(* and what the last call returned.                                        *)
(***************************************************************************)
NoMsg == [cls |-> "None", f |-> <<>>]

NoArgs ==
    [height |-> PyInt(0), hash |-> <<>>, branch |-> <<>>, limit |-> PyInt(0),
     skip |-> PyInt(0), direction |-> GENESIS]

NoBuilt == [via |-> "none", decoded |-> FALSE, args |-> NoArgs]

NoSent == [built |-> NoBuilt, msg |-> NoMsg]

Outcome(op, status, args, schema, ret) ==
    [op |-> op, status |-> status, args |-> args, opcode |-> -1, schema |-> schema,
     ret |-> ret]

NoOutcome == Outcome("none", "ok", NoArgs, "", None)

Init ==
    /\ catalog = OP_SERIALIZER_MAP
    /\ msg = NoMsg
    /\ built = NoBuilt
    /\ wire = <<>>
    /\ sent = NoSent
    /\ outcome = NoOutcome

\* cls(**kw), for any class of the catalog.  An instance is built when none is
\* in hand: building one starts afresh whatever was in hand before (Release).
Create ==
    /\ msg = NoMsg
    /\ \E cls \in Classes : \E kw \in Instances[cls] :
          /\ msg' = construct(cls, kw)
          /\ built' = [via |-> "init", decoded |-> FALSE, args |-> NoArgs]
          /\ outcome' = Outcome("init", "ok", NoArgs, cls, None)
    /\ wire' = <<>>
    /\ sent' = NoSent
    /\ UNCHANGED catalog

\* the result r of a named constructor called with args: the new instance, or
\* the exception and no instance
Created(via, args, r) ==
    /\ msg = NoMsg
    /\ msg' = IF r.status = "ok" THEN r.self ELSE msg
    /\ built' = IF r.status = "ok"
                THEN [via |-> via, decoded |-> FALSE, args |-> args]
                ELSE built
    /\ outcome' = Outcome(via, r.status, args, "", r.ret)
    /\ wire' = <<>>
    /\ sent' = NoSent
    /\ UNCHANGED catalog

RootCreateForHeight ==
    \E height \in Heights, limit \in Samples("limit", uint32),
       skip \in Samples("skip", uint32), direction \in {GENESIS, TIP} :
        Created("create_for_height",
                [NoArgs EXCEPT !.height = height, !.limit = limit, !.skip = skip,
                               !.direction = direction],
                GetRootBlockHeaderListWithSkipRequest_create_for_height(
                    height, limit, skip, direction))

RootCreateForHash ==
    \E hash \in Hashes, limit \in Samples("limit", uint32),
       skip \in Samples("skip", uint32), direction \in {GENESIS, TIP} :
        Created("create_for_hash",
                [NoArgs EXCEPT !.hash = hash, !.limit = limit, !.skip = skip,
                               !.direction = direction],
                GetRootBlockHeaderListWithSkipRequest_create_for_hash(
                    hash, limit, skip, direction))

MinorCreateForHeight ==
    \E height \in Heights, branch \in Opaques, limit \in Samples("limit", uint32),
       skip \in Samples("skip", uint32), direction \in {GENESIS, TIP} :
        Created("create_for_height",
                [NoArgs EXCEPT !.height = height, !.branch = branch, !.limit = limit,
                               !.skip = skip, !.direction = direction],
                GetMinorBlockHeaderListWithSkipRequest_create_for_height(
                    height, branch, limit, skip, direction))

MinorCreateForHash ==
    \E hash \in Hashes, branch \in Opaques, limit \in Samples("limit", uint32),
       skip \in Samples("skip", uint32), direction \in {GENESIS, TIP} :
        Created("create_for_hash",
                [NoArgs EXCEPT !.hash = hash, !.branch = branch, !.limit = limit,
                               !.skip = skip, !.direction = direction],
                GetMinorBlockHeaderListWithSkipRequest_create_for_hash(
                    hash, branch, limit, skip, direction))

\* msg.serialize()
Serialize ==
    /\ msg # NoMsg
    /\ LET r == serialize(Struct(msg.cls), msg)
       IN  /\ wire' = IF r.ok THEN r.bytes ELSE wire
           /\ sent' = IF r.ok THEN [built |-> [built EXCEPT !.decoded = FALSE], msg |-> msg]
                      ELSE sent
           /\ outcome' = Outcome("serialize", IF r.ok THEN "ok" ELSE "SerializeError",
                                 NoArgs, msg.cls, None)
    /\ UNCHANGED <<catalog, msg, built>>

\* the payload on the wire arrives under the opcode op, whatever the class it
\* was serialized from: the lookup in the catalog, then cls.deserialize(payload).
\* A payload that does not decode, or that leaves bytes, is malformed.
Receive ==
    \E op \in Opcodes :
        LET l == schema_for(catalog, op)
            d == deserialize(Struct(l.schema), wire)
            good == l.status = "ok" /\ d.ok /\ d.rest = <<>>
        IN  /\ sent # NoSent
            /\ catalog' = l.catalog
            /\ msg' = IF good THEN d.value ELSE msg
            /\ built' = IF ~good THEN built
                        ELSE IF sent # NoSent /\ sent.msg.cls = l.schema
                        THEN [sent.built EXCEPT !.decoded = TRUE]
                        ELSE [via |-> "wire", decoded |-> TRUE, args |-> NoArgs]
            /\ outcome' = [Outcome("receive",
                                   IF l.status # "ok" THEN l.status
                                   ELSE IF good THEN "ok" ELSE "MalformedPayload",
                                   NoArgs, l.schema, None)
                              EXCEPT !.opcode = op]
            /\ UNCHANGED <<wire, sent>>

\* msg.get_height()
GetHeight ==
    /\ msg.cls \in SkipRequests
    /\ LET r == IF msg.cls = "GetRootBlockHeaderListWithSkipRequest"
                THEN GetRootBlockHeaderListWithSkipRequest_get_height(msg)
                ELSE GetMinorBlockHeaderListWithSkipRequest_get_height(msg)
       IN  /\ msg' = r.self
           /\ outcome' = Outcome("get_height", r.status, NoArgs, msg.cls, r.ret)
    /\ UNCHANGED <<catalog, built, wire, sent>>

\* msg.get_hash()
GetHash ==
    /\ msg.cls \in SkipRequests
    /\ LET r == IF msg.cls = "GetRootBlockHeaderListWithSkipRequest"
                THEN GetRootBlockHeaderListWithSkipRequest_get_hash(msg)
                ELSE GetMinorBlockHeaderListWithSkipRequest_get_hash(msg)
       IN  /\ msg' = r.self
           /\ outcome' = Outcome("get_hash", r.status, NoArgs, msg.cls, r.ret)
    /\ UNCHANGED <<catalog, built, wire, sent>>

\* the instance and the payload are dropped
Release ==
    /\ msg # NoMsg
    /\ msg' = NoMsg
    /\ built' = NoBuilt
    /\ wire' = <<>>
    /\ sent' = NoSent
    /\ outcome' = NoOutcome
    /\ UNCHANGED catalog

Next ==
    \/ Create
    \/ RootCreateForHeight
    \/ RootCreateForHash
    \/ MinorCreateForHeight
    \/ MinorCreateForHash
    \/ Serialize
    \/ Receive
    \/ GetHeight
    \/ GetHash
    \/ Release

Spec == Init /\ [][Next]_vars


(***************************************************************************)
(* Properties.                                                             *)
(***************************************************************************)
RootSkip == "GetRootBlockHeaderListWithSkipRequest"
MinorSkip == "GetMinorBlockHeaderListWithSkipRequest"
NamedConstructors == {"create_for_height", "create_for_hash"}

\* the n-byte big-endian form of the magnitude mag
BigEndian(mag, n) ==
    [i \in 1..n |-> IF i <= n - Len(mag) THEN 0 ELSE mag[i - (n - Len(mag))]]

\* whether the height h fits the 32-byte slot: 0 <= h < 2^256
InSlot(h) == ~h.neg /\ Len(h.mag) <= 32

SharedSchema ==
    {{PING, PONG},
     {GET_ROOT_BLOCK_HEADER_LIST_RESPONSE, GET_ROOT_BLOCK_HEADER_LIST_WITH_SKIP_RESPONSE},
     {GET_MINOR_BLOCK_HEADER_LIST_RESPONSE, GET_MINOR_BLOCK_HEADER_LIST_WITH_SKIP_RESPONSE}}

C2_SkipQueryAddress ==
    /\ (outcome.op = "get_height" /\ built.via = "create_for_height") =>
          /\ outcome.status = "ok"
          /\ outcome.ret = <<"int", built.args.height>>
    /\ (outcome.op = "get_hash" /\ built.via = "create_for_height") =>
          /\ outcome.status = "ContractViolation"
          /\ outcome.ret = None
    /\ (outcome.op = "get_hash" /\ built.via = "create_for_hash") =>
          /\ outcome.status = "ok"
          /\ outcome.ret = <<"bytes", built.args.hash>>
    /\ (outcome.op = "get_height" /\ built.via = "create_for_hash") =>
          /\ outcome.status = "ContractViolation"
          /\ outcome.ret = None

\* get_height() has returned 2^256 - 1 from a minor request built for it
C2_LargestHeightRead ==
    /\ outcome.op = "get_height"
    /\ outcome.status = "ok"
    /\ msg.cls = MinorSkip
    /\ built.via = "create_for_height"
    /\ ~built.decoded
    /\ built.args.height = MaxUint(32)

\* C3: the lookup gives a schema for every opcode 0..20 and for no other; a
\* payload under another opcode ends in UnknownOpcode, with no schema and
\* nothing returned, and the catalog is the one built at the start.
C3_CatalogLookup ==
    /\ catalog = [op \in 0..20 |-> Row(op)]
    /\ outcome.op = "receive" =>
          IF outcome.opcode \in 0..20
          THEN /\ outcome.status \in {"ok", "MalformedPayload"}
               /\ outcome.schema = Row(outcome.opcode)
               /\ outcome.schema \in Classes
          ELSE /\ outcome.status = "UnknownOpcode"
               /\ outcome.schema = ""
               /\ outcome.ret = None
               /\ msg.cls \in Classes

\* opcode 255 has been received and refused
C3_Opcode255Refused ==
    /\ outcome.op = "receive"
    /\ outcome.opcode = 255
    /\ outcome.status = "UnknownOpcode"

\* C4: every valid instance serializes, and the payload of an instance,
\* decoded with the schema of its class, gives an instance with every field
\* equal; a request built by create_for_height(h, ...) and decoded has
\* get_height() = h.
C4_RoundTrip ==
    /\ outcome.op = "serialize" => outcome.status = "ok" /\ sent.msg = msg
    /\ (outcome.op = "receive" /\ outcome.schema = sent.msg.cls) =>
          /\ outcome.status = "ok"
          /\ msg = sent.msg
          /\ \A i \in 1..Len(FIELDS(msg.cls)) :
                msg.f[FIELDS(msg.cls)[i][1]] = sent.msg.f[FIELDS(msg.cls)[i][1]]
    /\ (outcome.op = "get_height" /\ built.decoded /\ built.via = "create_for_height") =>
          outcome.ret = <<"int", built.args.height>>

\* the Hello of the handshake scenario has been decoded from its payload
C4_HelloDecoded ==
    /\ outcome.op = "receive"
    /\ outcome.status = "ok"
    /\ outcome.opcode = HELLO
    /\ built.decoded
    /\ msg.f = HelloScenario

\* C5: the payload of the root request built by create_for_height(h, limit,
\* skip, direction) is the byte 1, h in 32 bytes big-endian, limit and skip in
\* 4 bytes big-endian each, and the byte of the direction.
C5_HeightWireLayout ==
    (outcome.op = "serialize" /\ msg.cls = RootSkip /\ built.via = "create_for_height") =>
        /\ outcome.status = "ok"
        /\ Len(wire) = 42
        /\ wire[1] = 1
        /\ SubSeq(wire, 2, 33) = BigEndian(built.args.height.mag, 32)
        /\ SubSeq(wire, 34, 37) = BigEndian(built.args.limit.mag, 4)
        /\ SubSeq(wire, 38, 41) = BigEndian(built.args.skip.mag, 4)
        /\ wire[42] = (IF built.args.direction = TIP THEN 1 ELSE 0)
        /\ (/\ built.args.height = PyInt(1000)
            /\ built.args.limit = PyInt(50)
            /\ built.args.skip = PyInt(9)
            /\ built.args.direction = TIP) =>
                wire = <<1>> \o Zeros(30) \o <<3, 232>> \o <<0, 0, 0, 50>>
                            \o <<0, 0, 0, 9>> \o <<1>>

\* the request of the scenario, height 1000, limit 50, skip 9, TIP, is serialized
C5_ScenarioSerialized ==
    /\ outcome.op = "serialize"
    /\ msg.cls = RootSkip
    /\ built.via = "create_for_height"
    /\ built.args.height = PyInt(1000)
    /\ built.args.limit = PyInt(50)
    /\ built.args.skip = PyInt(9)
    /\ built.args.direction = TIP
    /\ Len(wire) = 42

\* C6: the payload of a skip request has the same length whether it was built
\* for a hash or for a height: 1 + 32 + 4 + 4 + 1 bytes, and the bytes of the
\* branch in the minor request.
C6_ConstantWireSize ==
    (outcome.op = "serialize" /\ msg.cls \in SkipRequests
        /\ built.via \in NamedConstructors) =>
        /\ outcome.status = "ok"
        /\ Len(wire) = 1 + 32 + (IF msg.cls = MinorSkip THEN OpaqueLen ELSE 0) + 4 + 4 + 1

\* a minor request built for the height 0 is serialized
C6_HeightZeroSerialized ==
    /\ outcome.op = "serialize"
    /\ outcome.status = "ok"
    /\ msg.cls = MinorSkip
    /\ built.via = "create_for_height"
    /\ built.args.height = PyInt(0)

C8_BranchCarried ==
    /\ (msg.cls = MinorSkip /\ built.via \in NamedConstructors) =>
          /\ msg.f.branch = built.args.branch
          /\ msg.f.limit = built.args.limit
          /\ msg.f.skip = built.args.skip
          /\ msg.f.direction = built.args.direction
    /\ msg.cls = MinorSkip =>
          DOMAIN msg.f = {"type", "data", "branch", "limit", "skip", "direction"}
    /\ msg.cls = RootSkip => DOMAIN msg.f = {"type", "data", "limit", "skip", "direction"}
    /\ (outcome.op = "serialize" /\ msg.cls = MinorSkip) =>
          wire = BigEndian(msg.f.type.mag, 1) \o msg.f.data \o msg.f.branch
                    \o BigEndian(msg.f.limit.mag, 4) \o BigEndian(msg.f.skip.mag, 4)
                    \o BigEndian(msg.f.direction.mag, 1)
    /\ (outcome.op = "serialize" /\ msg.cls = RootSkip) =>
          wire = BigEndian(msg.f.type.mag, 1) \o msg.f.data
                    \o BigEndian(msg.f.limit.mag, 4) \o BigEndian(msg.f.skip.mag, 4)
                    \o BigEndian(msg.f.direction.mag, 1)

\* a minor request built by create_for_hash with a branch is serialized
C8_MinorSerialized ==
    /\ outcome.op = "serialize"
    /\ msg.cls = MinorSkip
    /\ built.via = "create_for_hash"
    /\ built.args.branch = [i \in 1..OpaqueLen |-> i]
    /\ msg.f.branch = built.args.branch

\* C9: however the request was obtained, get_hash() succeeds exactly when
\* type = 0 and get_height() exactly when type = 1, so never both and neither
\* for type >= 2; an accessor that fails returns nothing.
C9_OneAccessor ==
    /\ outcome.op = "get_height" =>
          /\ outcome.status = "ok" <=> msg.f.type = PyInt(1)
          /\ outcome.status # "ok" =>
                outcome.status = "ContractViolation" /\ outcome.ret = None
    /\ outcome.op = "get_hash" =>
          /\ outcome.status = "ok" <=> msg.f.type = PyInt(0)
          /\ outcome.status # "ok" =>
                outcome.status = "ContractViolation" /\ outcome.ret = None

\* get_height() has failed on a request decoded with the type byte 255
C9_Type255Refused ==
    /\ outcome.op = "get_height"
    /\ outcome.status = "ContractViolation"
    /\ built.decoded
    /\ built.via = "init"
    /\ msg.f.type = PyInt(255)
    /\ wire[1] = 255

\* C10: create_for_height fails, and gives no instance, for a height below 0
\* or from 2^256 on; for any other height the data are 32 bytes, the height
\* itself in big-endian, and get_height() returns it.
C10_HeightRange ==
    /\ outcome.op = "create_for_height" =>
          IF InSlot(outcome.args.height)
          THEN /\ outcome.status = "ok"
               /\ msg.cls \in SkipRequests
               /\ Len(msg.f.data) = 32
               /\ msg.f.data = BigEndian(outcome.args.height.mag, 32)
               /\ StripZeros(msg.f.data) = outcome.args.height.mag
          ELSE /\ outcome.status = "OverflowError"
               /\ msg = NoMsg
               /\ built = NoBuilt
    /\ built.via = "create_for_height" =>
          /\ InSlot(built.args.height)
          /\ outcome.op = "get_height" =>
                outcome.ret = <<"int", [neg |-> FALSE, mag |-> built.args.height.mag]>>

\* create_for_height(2^256, ...) has failed
C10_TooLargeRefused ==
    /\ outcome.op = "create_for_height"
    /\ outcome.args.height = Pow256(32)
    /\ outcome.status = "OverflowError"
    /\ msg = NoMsg

====
